---- MODULE Spec2Model ----
(***************************************************************************)
(* Options Categorizer: the document store of App.tsx, the category list   *)
(* page (CategoryList) and the category detail page (CategoryDetail).      *)
(*                                                                         *)
(* Ids are natural numbers handed out by a counter (generateId), NoId is   *)
(* JavaScript's null/undefined, ROOT is the 'ROOT' sentinel.  Sequences    *)
(* are 1-based; an index of 0 stands for findIndex's -1.                    *)
(* An item is [type, id, title] (OPTION) or [type, id, title, items]       *)
(* (GROUP); a category is [id, title, createdAt, modifiedAt, items].       *)
(* The items' createdAt and the category's description are carried along   *)
(* by every operation without being read, and are left out.                *)
(***************************************************************************)
EXTENDS Integers, Sequences, FiniteSets, TLC

VARIABLES
    categories,     \* App.tsx: the document, useState<Category[]>
    routeId,        \* the :id of the /category/:id route, NoId on the list page
    sortField,      \* CategoryDetail: the item sort field
    activeId,       \* CategoryDetail: the item being dragged, or NoId
    modalMode,      \* CategoryDetail: "none", "createOption", "createGroup", "moveOption"
    targetGroupId,  \* CategoryDetail: the group an option is created in, or NoId
    moveTargetId,   \* CategoryDetail: the option being moved, or NoId
    nextId,         \* generateId: the next unused id
    now,            \* Date.now()
    reader,         \* CategoryList: the FileReader of an import, and the file it reads
    steps,          \* how many times the document was replaced (setCategories) so far
    editingCategory, \* CategoryList: the category the edit modal was opened on, <<>> for null
    stored,         \* localStorage: the value under STORAGE_KEY
    mounted,        \* AppContent was mounted: the document was loaded
    budget,         \* how many replacements of the document a run is followed for
    last            \* history: the last handler that ran, its arguments, the state before it

vars == <<categories, routeId, sortField, activeId, modalMode, targetGroupId,
          moveTargetId, nextId, now, reader, steps, editingCategory, stored, mounted, budget, last>>

----------------------------------------------------------------------------
(* Bounds *)

\* ids 1..MaxId can be handed out
MaxId == 5
\* the clock runs from 0 to MaxTime
MaxTime == 1
\* the document is replaced at most MaxSteps times after the initial state
MaxSteps == 1
\* the application imports files of at most MaxStored entities (categories,
\* items, nested options) and starts from a stored document of at most one more
MaxStored == 2
\* a detail page is opened on a category of at most MaxDetail items and nested options
MaxDetail == 3
\* categories in a file given to the identity merge
MaxIdentity == 2

NoId == 0
ROOT == -1

\* category titles; group and option titles share one set, so that a group and an
\* option can carry the same title
CatTitles == {"A", "B"}
ItemTitles == {"x", "y"}
\* the text of the title input when it is blank: !inputText.trim()
Blank == ""
Ids == 1..MaxId

MANUAL == "MANUAL"
SortFields == {MANUAL, "TITLE", "CREATED_AT"}

----------------------------------------------------------------------------
(* Arrays *)

Min(S) == CHOOSE x \in S : \A y \in S : x <= y

\* Array.prototype.findIndex, 1-based; 0 when no element satisfies P
FindIndex(s, P(_)) ==
    LET hits == {i \in 1..Len(s) : P(s[i])}
    IN  IF hits = {} THEN 0 ELSE Min(hits)

\* Array.prototype.some
Some(s, P(_)) == \E i \in 1..Len(s) : P(s[i])

\* splice(i, 1) at a found index
RemoveAt(s, i) == [k \in 1..(Len(s) - 1) |-> IF k < i THEN s[k] ELSE s[k + 1]]

\* splice(i, 0, x): x becomes the element at index i
InsertAt(s, i, x) ==
    [k \in 1..(Len(s) + 1) |-> IF k < i THEN s[k] ELSE IF k = i THEN x ELSE s[k - 1]]

\* newItems[i] = x
SetAt(s, i, x) == [s EXCEPT ![i] = x]

\* @dnd-kit/sortable arrayMove(array, from, to) for indices found in the array:
\* newArray.splice(to, 0, newArray.splice(from, 1)[0])
ArrayMove(s, from, to) == InsertAt(RemoveAt(s, from), to, s[from])

\* Array.prototype.filter
Filter(s, P(_)) == SelectSeq(s, P)

IsGroup(i) == i.type = "GROUP"
IsOption(i) == i.type = "OPTION"

Option(id, title) == [type |-> "OPTION", id |-> id, title |-> title]
Group(id, title, items) == [type |-> "GROUP", id |-> id, title |-> title, items |-> items]

----------------------------------------------------------------------------
(* App.tsx: the document store *)

\* setCategories(prev => [category, ...prev])
AddCategory(prev, category) == <<category>> \o prev

\* UpdateCategory gone wrong: a category whose id is not in the document is put
\* in
UpdateOrInsert(prev, updatedCat) ==
    IF \E k \in 1..Len(prev) : prev[k].id = updatedCat.id
      THEN [k \in 1..Len(prev) |-> IF prev[k].id = updatedCat.id THEN updatedCat ELSE prev[k]]
      ELSE Append(prev, updatedCat)

\* setCategories(prev => prev.map(c => c.id === updatedCat.id ? updatedCat : c))
UpdateCategory(prev, updatedCat) ==
    [k \in 1..Len(prev) |-> IF prev[k].id = updatedCat.id THEN updatedCat ELSE prev[k]]

\* setCategories(prev => prev.filter(c => c.id !== id))
DeleteCategory(prev, id) == Filter(prev, LAMBDA c : c.id # id)

----------------------------------------------------------------------------
(* CategoryDetail.tsx: the category shown and what is derived from it *)

\* const category = categories.find(c => c.id === id)
CatIndex == FindIndex(categories, LAMBDA c : c.id = routeId)
HasCategory == CatIndex # 0
Category == categories[CatIndex]

\* s.some(x => x.id === id)
HasId(s, id) == \E k \in 1..Len(s) : s[k].id = id

\* s.findIndex(x => x.id === id)
IndexOfId(s, id) == FindIndex(s, LAMBDA x : x.id = id)

\* useMemo: the root groups and the root options, each in the order of items.
\* A sort field other than MANUAL sorts the two copies; the handlers only ask
\* whether an id is among them.
Groups(items) == Filter(items, IsGroup)
Options(items) == Filter(items, IsOption)

\* findItem: the root items first, then one level into each group
FindItem(items, id) ==
    IF HasId(items, id) THEN items[IndexOfId(items, id)]
    ELSE LET gi == FindIndex(items, LAMBDA i : IsGroup(i) /\ HasId(i.items, id))
         IN  IF gi # 0 THEN items[gi].items[IndexOfId(items[gi].items, id)]
             ELSE [type |-> "NONE", id |-> NoId]

\* What a handler did with the category: called updateCategory with new items,
\* returned early without it, or threw before it.
Updated(items) == [res |-> "update", items |-> items]
Returned(items) == [res |-> "return", items |-> items]
Threw(items) == [res |-> "throw", items |-> items]

\* isActiveGroup && isOverGroup, isActiveOption && isOverOption
BothRootGroups(items, active, over) ==
    HasId(Groups(items), active) /\ HasId(Groups(items), over)
\* BothRootOptions gone wrong: any two root items
AnyTwoRootItems(items, active, over) == HasId(items, active) /\ HasId(items, over)

BothRootOptions(items, active, over) ==
    HasId(Options(items), active) /\ HasId(Options(items), over)

\* ReorderRoot gone wrong: newItems[newIndex] = newItems[oldIndex] in place of a splice
ReorderRootOverwrite(items, active, over) ==
    SetAt(items, IndexOfId(items, over), items[IndexOfId(items, active)])

\* ReorderRoot gone wrong: the indices found in groups or options, the filtered
\* list the two ids are in, and used in category.items
ReorderRootInBucket(items, active, over) ==
    LET bucket == IF HasId(Groups(items), active) THEN Groups(items) ELSE Options(items)
    IN  ArrayMove(items, IndexOfId(bucket, active), IndexOfId(bucket, over))

\* ReorderRoot gone wrong: the two items change places
ReorderRootSwap(items, active, over) ==
    LET oldIndex == IndexOfId(items, active)
        newIndex == IndexOfId(items, over)
    IN  SetAt(SetAt(items, oldIndex, items[newIndex]), newIndex, items[oldIndex])

\* arrayMove([...category.items], oldIndex, newIndex), the indices found in items
ReorderRoot(items, active, over) ==
    ArrayMove(items, IndexOfId(items, active), IndexOfId(items, over))

\* arrayMove(group.items, oldIndex, newIndex) written back at parentGroupIndex
ReorderInGroup(items, parentGroupIndex, active, over) ==
    LET group == items[parentGroupIndex]
    IN  SetAt(items, parentGroupIndex,
              [group EXCEPT !.items =
                  ArrayMove(group.items, IndexOfId(group.items, active),
                            IndexOfId(group.items, over))])

\* handleDragEnd in manual mode, after setActiveId(null)
DragEndResult(items, active, over) ==
    LET parentGroupIndex ==
            FindIndex(items, LAMBDA i : IsGroup(i) /\ HasId(i.items, active))
    IN  IF over = NoId THEN Returned(items)
        ELSE IF active = over THEN Returned(items)
        ELSE IF BothRootGroups(items, active, over)
          THEN Updated(ReorderRoot(items, active, over))
        ELSE IF BothRootOptions(items, active, over)
          THEN Updated(ReorderRoot(items, active, over))
        ELSE IF parentGroupIndex # 0
          THEN IF HasId(items[parentGroupIndex].items, over)
                 THEN Updated(ReorderInGroup(items, parentGroupIndex, active, over))
                 ELSE Returned(items)
        ELSE Returned(items)

\* handleAddItem: where the new item goes
\* AddItemItems gone wrong: a new root option goes behind the last root group
AddItemAfterGroups(items, mode, groupId, newItem) ==
    IF mode = "createOption" /\ groupId = NoId
      THEN LET groupIndexes == {k \in 1..Len(items) : IsGroup(items[k])}
               lastGroup == IF groupIndexes = {} THEN 0
                            ELSE CHOOSE k \in groupIndexes : \A j \in groupIndexes : j <= k
           IN  InsertAt(items, lastGroup + 1, newItem)
    ELSE IF mode = "createOption"
      THEN LET groupIndex == IndexOfId(items, groupId)
           IN  IF groupIndex # 0 /\ IsGroup(items[groupIndex])
                 THEN SetAt(items, groupIndex,
                        [items[groupIndex] EXCEPT !.items = <<newItem>> \o @])
                 ELSE items
    ELSE <<newItem>> \o items

\* AddItemItems gone wrong: a new root group is pushed behind the other items
AddItemGroupLast(items, mode, groupId, newItem) ==
    IF mode = "createOption" /\ groupId # NoId
      THEN LET groupIndex == IndexOfId(items, groupId)
           IN  IF groupIndex # 0 /\ IsGroup(items[groupIndex])
                 THEN SetAt(items, groupIndex,
                        [items[groupIndex] EXCEPT !.items = <<newItem>> \o @])
                 ELSE items
    ELSE IF IsGroup(newItem) THEN Append(items, newItem)
    ELSE LET firstOptionIndex == FindIndex(items, IsOption)
         IN  IF firstOptionIndex # 0 THEN InsertAt(items, firstOptionIndex, newItem)
             ELSE Append(items, newItem)

\* handleAddItem: the items passed to updateCategory
AddItemItems(items, mode, groupId, newItem) ==
    IF mode = "createOption" /\ groupId # NoId
      THEN LET groupIndex == IndexOfId(items, groupId)
           IN  IF groupIndex # 0 /\ IsGroup(items[groupIndex])
                 THEN SetAt(items, groupIndex,
                        [items[groupIndex] EXCEPT !.items = <<newItem>> \o @])
                 ELSE items
    ELSE IF IsGroup(newItem) THEN <<newItem>> \o items
    ELSE LET firstOptionIndex == FindIndex(items, IsOption)
         IN  IF firstOptionIndex # 0 THEN InsertAt(items, firstOptionIndex, newItem)
             ELSE Append(items, newItem)

\* DeleteItemResult gone wrong: the options of a deleted root group stay, at the
\* root
DeleteItemKeepOptions(items, itemId, parentGroupId) ==
    IF parentGroupId # NoId
      THEN LET groupIndex == IndexOfId(items, parentGroupId)
           IN  IF groupIndex = 0 THEN Updated(items)
               ELSE IF ~IsGroup(items[groupIndex]) THEN Threw(items)
               ELSE Updated(SetAt(items, groupIndex,
                      [items[groupIndex] EXCEPT !.items =
                          Filter(@, LAMBDA i : i.id # itemId)]))
    ELSE LET k == IndexOfId(items, itemId)
         IN  IF k # 0 /\ IsGroup(items[k])
               THEN Updated(RemoveAt(items, k) \o items[k].items)
               ELSE Updated(Filter(items, LAMBDA i : i.id # itemId))

\* handleDeleteItem, once confirmed.  With a parentGroupId that names an option,
\* group.items is undefined and group.items.filter throws.
DeleteItemResult(items, itemId, parentGroupId) ==
    IF parentGroupId # NoId
      THEN LET groupIndex == IndexOfId(items, parentGroupId)
           IN  IF groupIndex = 0 THEN Updated(items)
               ELSE IF ~IsGroup(items[groupIndex]) THEN Threw(items)
               ELSE Updated(SetAt(items, groupIndex,
                      [items[groupIndex] EXCEPT !.items =
                          Filter(@, LAMBDA i : i.id # itemId)]))
    ELSE Updated(Filter(items, LAMBDA i : i.id # itemId))

\* handleMoveOption, first half: take the item out of the root items, else out of
\* the first group that holds it.  found is itemToMove !== null.
MoveTake(items, id) ==
    LET rootIndex == IndexOfId(items, id)
        gi == FindIndex(items, LAMBDA i : IsGroup(i) /\ HasId(i.items, id))
    IN  IF rootIndex # 0
          THEN [found |-> TRUE, item |-> items[rootIndex], items |-> RemoveAt(items, rootIndex)]
        ELSE IF gi # 0
          THEN [found |-> TRUE,
                item |-> items[gi].items[IndexOfId(items[gi].items, id)],
                items |-> SetAt(items, gi,
                    [items[gi] EXCEPT !.items = RemoveAt(@, IndexOfId(@, id))])]
        ELSE [found |-> FALSE, item |-> [type |-> "NONE", id |-> NoId], items |-> items]

\* MovePut gone wrong: the item goes to the front of a group, to the end of the
\* root
MovePutOtherEnd(newItems, itemToMove, target) ==
    IF target = ROOT THEN Append(newItems, itemToMove)
    ELSE LET destIndex == IndexOfId(newItems, target)
         IN  IF destIndex # 0 /\ IsGroup(newItems[destIndex])
               THEN SetAt(newItems, destIndex,
                      [newItems[destIndex] EXCEPT !.items = <<itemToMove>> \o @])
               ELSE newItems

\* handleMoveOption, second half: put itemToMove at the destination
MovePut(newItems, itemToMove, target) ==
    IF target = ROOT
      THEN LET firstOptionIndex == FindIndex(newItems, IsOption)
           IN  IF firstOptionIndex # 0 THEN InsertAt(newItems, firstOptionIndex, itemToMove)
               ELSE Append(newItems, itemToMove)
    ELSE LET destIndex == IndexOfId(newItems, target)
         IN  IF destIndex # 0 /\ IsGroup(newItems[destIndex])
               THEN SetAt(newItems, destIndex,
                      [newItems[destIndex] EXCEPT !.items = Append(@, itemToMove)])
               ELSE newItems

\* handleMoveOption(targetGroupId) with moveTargetId = id
MoveOptionResult(items, id, target) ==
    LET t == MoveTake(items, id)
    IN  IF id = NoId THEN Returned(items)
        ELSE IF ~t.found THEN Returned(items)
        ELSE Updated(MovePut(t.items, t.item, target))

----------------------------------------------------------------------------
(* App.tsx: importCategories, the title-based merge.  generateId is the     *)
(* counter next; every operator returns the items it built and the counter *)
(* after the ids it drew, in the order the code draws them.                *)

\* generateId() of ../utils, the n-th call: an id that is not in use
GenerateId(n) == n

\* the number of generateId() calls that copying an item with fresh ids makes
Weight(item) == IF IsGroup(item) THEN 1 + Len(item.items) ELSE 1

\* subs.map(sub => ({ ...sub, id: generateId() }))
RegenSubs(subs, next) ==
    [k \in 1..Len(subs) |-> [subs[k] EXCEPT !.id = GenerateId(next + k - 1)]]

\* RegenItem gone wrong: { ...item }, the imported ids are kept
KeepItemId(item, next) == item

\* { ...item, id: generateId(), items: item.items.map(...) } for a group,
\* { ...item, id: generateId() } otherwise
RegenItem(item, next) ==
    IF IsGroup(item)
      THEN [item EXCEPT !.id = GenerateId(next), !.items = RegenSubs(item.items, next + 1)]
      ELSE [item EXCEPT !.id = GenerateId(next)]

\* impCat.items.map(item => ...) of a new category
RECURSIVE RegenItems(_, _)
RegenItems(items, next) ==
    IF items = <<>> THEN <<>>
    ELSE <<RegenItem(Head(items), next)>>
         \o RegenItems(Tail(items), next + Weight(Head(items)))

RECURSIVE SumWeight(_)
SumWeight(items) ==
    IF items = <<>> THEN 0 ELSE Weight(Head(items)) + SumWeight(Tail(items))

\* MergeGroup gone wrong: the new options are put before the existing ones
MergeGroupPrepend(existingGroup, impItem, next) ==
    LET existingSubTitles == {existingGroup.items[k].title : k \in 1..Len(existingGroup.items)}
        added == Filter(impItem.items, LAMBDA sub : sub.title \notin existingSubTitles)
    IN  [group |-> [existingGroup EXCEPT !.items = RegenSubs(added, next) \o @],
         next |-> next + Len(added)]

\* an imported group whose title an existing group carries: the imported options
\* whose title is not among the titles the existing group had are appended
MergeGroup(existingGroup, impItem, next) ==
    LET existingSubTitles == {existingGroup.items[k].title : k \in 1..Len(existingGroup.items)}
        added == Filter(impItem.items, LAMBDA sub : sub.title \notin existingSubTitles)
    IN  [group |-> [existingGroup EXCEPT !.items = @ \o RegenSubs(added, next)],
         next |-> next + Len(added)]

\* one step of impCat.items.forEach(impItem => ...)
MergeItem(newItems, impItem, next) ==
    IF IsGroup(impItem)
      THEN LET existingGroupIndex ==
                   FindIndex(newItems, LAMBDA i : IsGroup(i) /\ i.title = impItem.title)
           IN  IF existingGroupIndex # 0
                 THEN LET m == MergeGroup(newItems[existingGroupIndex], impItem, next)
                      IN  [items |-> SetAt(newItems, existingGroupIndex, m.group),
                           next |-> m.next]
                 ELSE [items |-> Append(newItems, RegenItem(impItem, next)),
                       next |-> next + Weight(impItem)]
      ELSE LET optionExists ==
                   Some(newItems, LAMBDA i : IsOption(i) /\ i.title = impItem.title)
           IN  IF ~optionExists
                 THEN [items |-> Append(newItems, RegenItem(impItem, next)),
                       next |-> next + 1]
                 ELSE [items |-> newItems, next |-> next]

\* impCat.items.forEach(...) over a copy of the existing category's items
RECURSIVE MergeItems(_, _, _)
MergeItems(newItems, impItems, next) ==
    IF impItems = <<>> THEN [items |-> newItems, next |-> next]
    ELSE LET m == MergeItem(newItems, Head(impItems), next)
         IN  MergeItems(m.items, Tail(impItems), m.next)

\* NewCategory gone wrong: the items keep the ids of the file
NewCategoryKeepItems(impCat, next) == [impCat EXCEPT !.id = GenerateId(next)]

\* newCategories.push({ ...impCat, id: generateId(), items: ... })
NewCategory(impCat, next) ==
    [impCat EXCEPT !.id = GenerateId(next), !.items = RegenItems(impCat.items, next + 1)]

\* one step of imported.forEach(impCat => ...), at time t
ImportCategory(newCategories, impCat, next, t) ==
    LET existingCatIndex == FindIndex(newCategories, LAMBDA c : c.title = impCat.title)
    IN  IF existingCatIndex # 0
          THEN LET existingCat == newCategories[existingCatIndex]
                   m == MergeItems(existingCat.items, impCat.items, next)
               IN  [cats |-> SetAt(newCategories, existingCatIndex,
                                [existingCat EXCEPT !.items = m.items, !.modifiedAt = t]),
                    next |-> m.next]
          ELSE [cats |-> Append(newCategories, NewCategory(impCat, next)),
                next |-> next + 1 + SumWeight(impCat.items)]

\* importCategories(imported) applied to prev: the new document and the counter
RECURSIVE ImportCategories(_, _, _, _)
ImportCategories(prev, imported, next, t) ==
    IF imported = <<>> THEN [cats |-> prev, next |-> next]
    ELSE LET m == ImportCategory(prev, Head(imported), next, t)
         IN  ImportCategories(m.cats, Tail(imported), m.next, t)

----------------------------------------------------------------------------
(* App.tsx, the identity merge: importCategories by id, over a Map that     *)
(* keeps its keys in the order they were first set.                          *)

\* MapSet gone wrong: a key that is set already keeps its value
MapSetKeep(entries, c) ==
    IF HasId(entries, c.id) THEN entries ELSE Append(entries, c)

\* map.set(c.id, c)
MapSet(entries, c) ==
    IF HasId(entries, c.id) THEN SetAt(entries, IndexOfId(entries, c.id), c)
    ELSE Append(entries, c)

\* cs.forEach(c => map.set(c.id, c))
RECURSIVE MapSetAll(_, _)
MapSetAll(entries, cs) ==
    IF cs = <<>> THEN entries ELSE MapSetAll(MapSet(entries, Head(cs)), Tail(cs))

\* Array.from(map.values()) of new Map(prev.map(c => [c.id, c])) after the
\* imported categories were set
IdentityImport(prev, imported) == MapSetAll(MapSetAll(<<>>, prev), imported)

----------------------------------------------------------------------------
(* Import files: the lists of categories of a given number of entities     *)
(* (categories, items, nested options) that pass handleImportFile's check.  *)

\* sequences of options of length at most n (ids are filled in by FileNumbered)
RECURSIVE FileSubs(_)
FileSubs(n) ==
    IF n <= 0 THEN {<<>>}
    ELSE FileSubs(n - 1)
         \cup {Append(s, Option(NoId, t)) : s \in {q \in FileSubs(n - 1) : Len(q) = n - 1},
                                            t \in ItemTitles}

\* items of at most w entities
FileItem(w) ==
    IF w <= 0 THEN {}
    ELSE {Option(NoId, t) : t \in ItemTitles}
         \cup {Group(NoId, t, subs) : t \in ItemTitles, subs \in FileSubs(w - 1)}

\* item lists of at most w entities in all
RECURSIVE FileItems(_)
FileItems(w) ==
    IF w <= 0 THEN {<<>>}
    ELSE {<<>>} \cup UNION {{<<it>> \o rest : rest \in FileItems(w - Weight(it))} : it \in FileItem(w)}

FileTimes == {[createdAt |-> 0, modifiedAt |-> 0]}

FileCategory(w) ==
    IF w <= 0 THEN {}
    ELSE {[id |-> NoId, title |-> t, createdAt |-> tm.createdAt, modifiedAt |-> tm.modifiedAt,
           items |-> its] : t \in CatTitles, tm \in FileTimes, its \in FileItems(w - 1)}

RECURSIVE FileCategories(_)
FileCategories(w) ==
    IF w <= 0 THEN {<<>>}
    ELSE {<<>>} \cup UNION {{<<c>> \o rest : rest \in FileCategories(w - 1 - SumWeight(c.items))}
                            : c \in FileCategory(w)}

\* the ids of a file: 1, 2, ... in document order
RECURSIVE FileNumberedItems(_, _)
FileNumberedItems(items, n) ==
    IF items = <<>> THEN <<>>
    ELSE LET h == Head(items)
             numbered ==
                 IF IsGroup(h)
                   THEN [h EXCEPT !.id = n,
                                  !.items = [k \in 1..Len(h.items) |->
                                                [h.items[k] EXCEPT !.id = n + k]]]
                   ELSE [h EXCEPT !.id = n]
         IN  <<numbered>> \o FileNumberedItems(Tail(items), n + Weight(h))

RECURSIVE FileNumbered(_, _)
FileNumbered(cats, n) ==
    IF cats = <<>> THEN <<>>
    ELSE <<[Head(cats) EXCEPT !.id = n, !.items = FileNumberedItems(Head(cats).items, n + 1)]>>
         \o FileNumbered(Tail(cats), n + 1 + SumWeight(Head(cats).items))

\* the files of at most w entities
FilesUpTo == [w \in 0..MaxId |-> {FileNumbered(f, 1) : f \in FileCategories(w)}]

----------------------------------------------------------------------------
(* History: the handler that ran last, with its arguments (ids in a and b, *)
(* a text in s, an import file in file), what it did (res) and the state   *)
(* it started from; seen is the document of the render the handler was     *)
(* made in.                                                                *)

Hist(op, a, b, str, res) ==
    [op |-> op, a |-> a, b |-> b, s |-> str, res |-> res, file |-> <<>>,
     pre |-> categories, preActive |-> activeId, preNext |-> nextId, stored |-> stored,
     seen |-> categories]

\* the FileReader of handleImportFile: doc is the document CategoryList was
\* rendered with when the file was chosen
NoReader == [pending |-> FALSE, file |-> <<>>, doc |-> <<>>]

\* CategoryDetail's state when it mounts; the sort field is kept in localStorage
DetailReset ==
    /\ activeId' = NoId
    /\ modalMode' = "none"
    /\ targetGroupId' = NoId
    /\ moveTargetId' = NoId

\* closeModal
CloseModalState ==
    /\ modalMode' = "none"
    /\ targetGroupId' = NoId
    /\ moveTargetId' = NoId

\* a run is followed until the document has been replaced budget times
Running == steps < budget

\* A value of localStorage: nothing under the key (getItem gives null), the
\* empty string, a text JSON.parse throws on, or the JSON text of a value
NoStored == [kind |-> "absent", value |-> <<>>]
EmptyText == [kind |-> "empty", value |-> <<>>]
Unparsable == [kind |-> "unparsable", value |-> <<>>]

\* JSON.stringify(value): the text that parses to value
Stringify(value) == [kind |-> "json", value |-> value]

\* the JSON text of a value that is not an array (an object, a number, null)
NotArrayText == [kind |-> "scalar", value |-> <<>>]

\* JSON.parse(text): the value and whether it is an array, or an exception
JsonParse(text) ==
    IF text.kind \in {"json", "scalar"}
      THEN [threw |-> FALSE, array |-> text.kind = "json", value |-> text.value]
      ELSE [threw |-> TRUE, array |-> FALSE, value |-> <<>>]

\* the useState initializer: stored ? JSON.parse(stored) : [], and [] when that
\* throws
LoadCategories(text) ==
    IF text.kind \in {"absent", "empty"} THEN <<>>
    ELSE IF JsonParse(text).threw THEN <<>>
    ELSE JsonParse(text).value

\* SaveEffect gone wrong: the empty document is written
SaveEmpty(cats) == Stringify(<<>>)

\* the effect that follows a render with a new document:
\* localStorage.setItem(STORAGE_KEY, JSON.stringify(categories))
SaveEffect(cats) == Stringify(cats)

\* one more replacement of the document (setCategories), and the save effect
\* of the render that follows it
Step ==
    /\ steps' = steps + 1
    /\ stored' = SaveEffect(categories')

\* updateCategory({ ...category, items: newItems, modifiedAt: Date.now() })

WithItems(newItems) ==
    UpdateCategory(categories, [Category EXCEPT !.items = newItems, !.modifiedAt = now])

----------------------------------------------------------------------------
(* CategoryDetail.tsx: the handlers.                                        *)
(* An open Modal covers the page (ui: "fixed inset-0"), so while one is     *)
(* open only its own buttons can be pressed; a drag gesture that has begun  *)
(* ends (onDragEnd) before any other control is used.  Timers and the       *)
(* FileReader run at any time.                                              *)

Idle == modalMode = "none" /\ activeId = NoId

\* DragStartActive gone wrong: the sort field is not looked at
DragStartAnyField(field, current, id) == id

\* handleDragStart: the active item after it
DragStartActive(field, current, id) == IF field # MANUAL THEN current ELSE id

HandleDragStart(id) ==
    /\ Running /\ HasCategory /\ Idle
    /\ activeId' = DragStartActive(sortField, activeId, id)
    /\ last' = Hist("dragStart", id, NoId, sortField, "return")
    /\ UNCHANGED <<budget, mounted, editingCategory, categories, routeId, sortField, modalMode, targetGroupId,
                   moveTargetId, nextId, now, reader, steps, stored>>

\* DragEnd gone wrong: the sort field is not looked at
DragEndAnyField(items, field, active, over) == DragEndResult(items, active, over)

\* what handleDragEnd does with the category
DragEnd(items, field, active, over) ==
    IF field # MANUAL THEN Returned(items) ELSE DragEndResult(items, active, over)

\* onDragEnd: event.active is the item onDragStart was called with
HandleDragEnd(active, over) ==
    /\ Running /\ HasCategory /\ modalMode = "none"
    /\ sortField = MANUAL => active = activeId
    /\ activeId' = NoId
    /\ LET r == DragEnd(Category.items, sortField, active, over)
       IN  /\ last' = Hist("dragEnd", active, over, sortField, r.res)
           /\ IF r.res = "update"
                THEN categories' = WithItems(r.items) /\ Step
                ELSE UNCHANGED <<categories, steps, stored>>
    /\ UNCHANGED <<budget, mounted, editingCategory, routeId, sortField, modalMode, targetGroupId, moveTargetId,
                   nextId, now, reader>>

OpenCreateModal(mode, groupId) ==
    /\ Running /\ HasCategory /\ Idle
    /\ modalMode' = mode
    /\ targetGroupId' = groupId
    /\ last' = Hist("openCreateModal", groupId, NoId, mode, "return")
    /\ UNCHANGED <<budget, mounted, editingCategory, categories, routeId, sortField, activeId, moveTargetId,
                   nextId, now, reader, steps, stored>>

OpenMoveModal(itemId) ==
    /\ Running /\ HasCategory /\ Idle
    /\ moveTargetId' = itemId
    /\ modalMode' = "moveOption"
    /\ last' = Hist("openMoveModal", itemId, NoId, "", "return")
    /\ UNCHANGED <<budget, mounted, editingCategory, categories, routeId, sortField, activeId, targetGroupId,
                   nextId, now, reader, steps, stored>>

CloseModal ==
    /\ Running /\ HasCategory
    /\ modalMode # "none"
    /\ CloseModalState
    /\ last' = Hist("closeModal", NoId, NoId, "", "return")
    /\ UNCHANGED <<budget, mounted, editingCategory, categories, routeId, sortField, activeId, nextId, now, reader, steps, stored>>

\* handleAddItem with inputText = text
HandleAddItem(text) ==
    /\ Running /\ HasCategory
    /\ modalMode \in {"createOption", "createGroup"}
    /\ IF text = Blank
         THEN /\ last' = Hist("addItem", targetGroupId, NoId, modalMode, "return")
              /\ UNCHANGED <<categories, modalMode, targetGroupId, moveTargetId, nextId, steps, stored>>
         ELSE /\ nextId <= MaxId
              /\ LET newItem == IF modalMode = "createGroup"
                                  THEN Group(GenerateId(nextId), text, <<>>)
                                  ELSE Option(GenerateId(nextId), text)
                 IN  categories' =
                         WithItems(AddItemItems(Category.items, modalMode, targetGroupId, newItem))
              /\ Step
              /\ nextId' = nextId + 1
              /\ CloseModalState
              /\ last' = Hist("addItem", targetGroupId, nextId, modalMode, "update")
    /\ UNCHANGED <<budget, mounted, editingCategory, routeId, sortField, activeId, now, reader>>

\* handleDeleteItem(itemId, parentGroupId), the confirm dialog accepted
HandleDeleteItem(itemId, parentGroupId) ==
    /\ Running /\ HasCategory /\ Idle
    /\ LET r == DeleteItemResult(Category.items, itemId, parentGroupId)
       IN  /\ last' = Hist("deleteItem", itemId, parentGroupId, "", r.res)
           /\ IF r.res = "update"
                THEN categories' = WithItems(r.items) /\ Step
                ELSE UNCHANGED <<categories, steps, stored>>
    /\ UNCHANGED <<budget, mounted, editingCategory, routeId, sortField, activeId, modalMode, targetGroupId,
                   moveTargetId, nextId, now, reader>>

\* handleMoveOption(target), a button of the move modal
HandleMoveOption(target) ==
    /\ Running /\ HasCategory
    /\ modalMode = "moveOption"
    /\ LET r == MoveOptionResult(Category.items, moveTargetId, target)
       IN  /\ last' = Hist("moveOption", moveTargetId, target, "", r.res)
           /\ IF r.res = "update"
                THEN /\ categories' = WithItems(r.items)
                     /\ Step
                     /\ CloseModalState
                ELSE UNCHANGED <<categories, steps, stored, modalMode, targetGroupId, moveTargetId>>
    /\ UNCHANGED <<budget, mounted, editingCategory, routeId, sortField, activeId, nextId, now, reader>>

\* the sort buttons: setSortField(field); pressing the active one flips the direction
SetSortField(field) ==
    /\ Running /\ HasCategory /\ Idle
    /\ sortField' = field
    /\ last' = Hist("setSortField", NoId, NoId, field, "return")
    /\ UNCHANGED <<budget, mounted, editingCategory, categories, routeId, activeId, modalMode, targetGroupId,
                   moveTargetId, nextId, now, reader, steps, stored>>

----------------------------------------------------------------------------
(* CategoryList: the handlers of the list page *)

\* the Modal of the list page covers it while a category is being edited
ListIdle == editingCategory = <<>>

\* openEditModal(cat): the modal keeps the category as rendered at that moment
OpenEditModal(id) ==
    /\ Running /\ routeId = NoId /\ ListIdle
    /\ HasId(categories, id)
    /\ editingCategory' = <<categories[IndexOfId(categories, id)]>>
    /\ last' = Hist("openEditModal", id, NoId, "", "return")
    /\ UNCHANGED <<budget, mounted, categories, routeId, sortField, activeId, modalMode, targetGroupId,
                   moveTargetId, nextId, now, reader, steps, stored>>

\* closeModal of the list page, on an edit
CloseEditModal ==
    /\ Running /\ routeId = NoId /\ ~ListIdle
    /\ editingCategory' = <<>>
    /\ last' = Hist("closeEditModal", NoId, NoId, "", "return")
    /\ UNCHANGED <<budget, mounted, categories, routeId, sortField, activeId, modalMode, targetGroupId,
                   moveTargetId, nextId, now, reader, steps, stored>>

\* the category handleSubmit passes to updateCategory
EditedCategory(cat, title, t) == [cat EXCEPT !.title = title, !.modifiedAt = t]

\* handleSubmit with formTitle = title (not blank): updateCategory on an edit,
\* addCategory (the add modal opened, filled and submitted) otherwise
HandleSubmit(title) ==
    /\ Running /\ routeId = NoId
    /\ IF editingCategory # <<>>
         THEN /\ categories' =
                    UpdateCategory(categories, EditedCategory(editingCategory[1], title, now))
              /\ last' = Hist("editCategory", editingCategory[1].id, NoId, title, "update")
              /\ UNCHANGED nextId
         ELSE /\ nextId <= MaxId
              /\ categories' = AddCategory(categories,
                    [id |-> GenerateId(nextId), title |-> title, createdAt |-> now,
                     modifiedAt |-> now, items |-> <<>>])
              /\ nextId' = nextId + 1
              /\ last' = Hist("addCategory", nextId, NoId, title, "update")
    /\ Step
    /\ editingCategory' = <<>>
    /\ UNCHANGED <<budget, mounted, routeId, sortField, activeId, modalMode, targetGroupId,
                   moveTargetId, now, reader>>

\* confirmDelete with deleteId = id
ConfirmDelete(id) ==
    /\ Running /\ routeId = NoId /\ ListIdle
    /\ categories' = DeleteCategory(categories, id)
    /\ Step
    /\ last' = Hist("deleteCategory", id, NoId, "", "update")
    /\ UNCHANGED <<budget, mounted, editingCategory, routeId, sortField, activeId, modalMode, targetGroupId,
                   moveTargetId, nextId, now, reader>>

\* handleImportFile: a file is chosen and reader.readAsText(file) starts
HandleImportFile(file) ==
    /\ Running /\ routeId = NoId /\ ListIdle
    /\ ~reader.pending
    /\ reader' = [pending |-> TRUE, file |-> file, doc |-> categories]
    /\ last' = Hist("importFile", NoId, NoId, "", "return")
    /\ UNCHANGED <<budget, mounted, editingCategory, categories, routeId, sortField, activeId, modalMode, targetGroupId,
                   moveTargetId, nextId, now, steps, stored>>

\* Prev gone wrong: the merge starts from the document the handler was made with
PrevOfRender(latest, seen) == seen

\* the argument React calls the updater of setCategories(prev => ...) with
Prev(latest, seen) == latest

\* reader.onload with the text of file: it parses and passes the check, and
\* importCategories(parsed) merges it into the document of that moment; seen
\* is the document of the render handleImportFile was made in
Onload(file, seen) ==
    /\ LET m == ImportCategories(Prev(categories, seen), file, nextId, now)
       IN  /\ m.next <= MaxId + 1
           /\ categories' = m.cats
           /\ nextId' = m.next
    /\ last' = [Hist("import", NoId, NoId, "", "update") EXCEPT !.file = file, !.seen = seen]
    /\ UNCHANGED <<budget, mounted, editingCategory, routeId, sortField, activeId, modalMode, targetGroupId,
                   moveTargetId, now>>

ReaderOnload ==
    /\ Running /\ reader.pending
    /\ Onload(reader.file, reader.doc)
    /\ Step
    /\ reader' = NoReader

\* handleImportFile whose read completes before anything else happens
ImportNow(file) ==
    /\ routeId = NoId /\ ListIdle
    /\ ~reader.pending
    /\ Onload(file, categories)
    /\ Step
    /\ UNCHANGED reader

\* a <Link>: the list page to a category's page.  An import that was started
\* is followed to its end before the page is left.
OpenCategory(id) ==
    /\ Running /\ routeId = NoId /\ ListIdle
    /\ ~reader.pending
    /\ HasId(categories, id)
    /\ routeId' = id
    /\ DetailReset
    /\ last' = Hist("openCategory", id, NoId, "", "return")
    /\ UNCHANGED <<budget, mounted, editingCategory, categories, sortField, nextId, now, reader, steps, stored>>

\* the back <Link>: a category's page to the list page
BackToList ==
    /\ Running /\ routeId # NoId
    /\ Idle
    /\ routeId' = NoId
    /\ DetailReset
    /\ last' = Hist("backToList", NoId, NoId, "", "return")
    /\ UNCHANGED <<budget, mounted, editingCategory, categories, sortField, nextId, now, reader, steps, stored>>

\* time passes
Tick ==
    /\ Running /\ now < MaxTime
    /\ now' = now + 1
    /\ last' = Hist("tick", NoId, NoId, "", "return")
    /\ UNCHANGED <<budget, mounted, editingCategory, categories, routeId, sortField, activeId, modalMode, targetGroupId,
                   moveTargetId, nextId, reader, steps, stored>>

----------------------------------------------------------------------------
(* Specifications *)

\* the files the application as a whole imports, and the files whose import
\* left the document it starts from
\* the times a chosen file's categories carry: the check of handleImportFile
\* reads id, title and items only, so a file may hold any two numbers
ImportTimes == {[createdAt |-> 0, modifiedAt |-> 0], [createdAt |-> MaxTime, modifiedAt |-> 0]}

WithTimes(file, tm) ==
    [k \in 1..Len(file) |->
        [file[k] EXCEPT !.createdAt = tm.createdAt, !.modifiedAt = tm.modifiedAt]]

AppFiles == {WithTimes(f, tm) : f \in FilesUpTo[MaxStored], tm \in ImportTimes}
StoredFiles == FilesUpTo[MaxStored + 1]

ListNext ==
    \/ \E title \in CatTitles : HandleSubmit(title)
    \/ \E id \in Ids : OpenEditModal(id)
    \/ CloseEditModal
    \/ \E id \in Ids : ConfirmDelete(id)
    \/ \E file \in AppFiles : HandleImportFile(file)
    \/ ReaderOnload
    \/ \E id \in Ids : OpenCategory(id)
    \/ BackToList

\* the ids the page renders controls for: the root groups, the root options and
\* the items inside the root groups (renderOption)
RootGroupIds(items) == {items[k].id : k \in {j \in 1..Len(items) : IsGroup(items[j])}}
RootOptionIds(items) == {items[k].id : k \in {j \in 1..Len(items) : IsOption(items[j])}}
SubIds(group) == {group.items[k].id : k \in 1..Len(group.items)}
RenderedIds(items) ==
    RootGroupIds(items) \cup RootOptionIds(items)
    \cup UNION {SubIds(items[k]) : k \in {j \in 1..Len(items) : IsGroup(items[j])}}

\* the detail page as its controls drive it: a drag handle, a Move and a Delete
\* button per rendered item, an Add button per group, one move target per group
AppDetailNext ==
    \/ \E id \in Ids : /\ HasCategory /\ sortField = MANUAL
                       /\ id \in RenderedIds(Category.items)
                       /\ HandleDragStart(id)
    \/ \E over \in Ids \cup {NoId} :
          /\ HasCategory /\ activeId # NoId
          /\ over \in RenderedIds(Category.items) \cup {NoId}
          /\ HandleDragEnd(activeId, over)
    \/ \E groupId \in Ids \cup {NoId} :
          /\ HasCategory
          /\ groupId \in RootGroupIds(Category.items) \cup {NoId}
          /\ OpenCreateModal("createOption", groupId)
    \/ OpenCreateModal("createGroup", NoId)
    \/ \E itemId \in Ids :
          /\ HasCategory
          /\ \/ itemId \in RootOptionIds(Category.items)
             \/ \E k \in 1..Len(Category.items) :
                   IsGroup(Category.items[k]) /\ itemId \in SubIds(Category.items[k])
          /\ OpenMoveModal(itemId)
    \/ CloseModal
    \/ \E text \in ItemTitles \cup {Blank} : HandleAddItem(text)
    \/ \E itemId \in Ids :
          /\ HasCategory
          /\ itemId \in RootGroupIds(Category.items) \cup RootOptionIds(Category.items)
          /\ HandleDeleteItem(itemId, NoId)
    \/ \E itemId \in Ids, parentGroupId \in Ids :
          /\ HasCategory
          /\ parentGroupId \in RootGroupIds(Category.items)
          /\ itemId \in SubIds(FindItem(Category.items, parentGroupId))
          /\ HandleDeleteItem(itemId, parentGroupId)
    \/ \E target \in Ids \cup {ROOT} :
          /\ HasCategory
          /\ target \in RootGroupIds(Category.items) \cup {ROOT}
          /\ HandleMoveOption(target)
    \/ \E field \in SortFields : SetSortField(field)

NoHist ==
    [op |-> "init", a |-> NoId, b |-> NoId, s |-> "", res |-> "return",
     file |-> <<>>, pre |-> <<>>, preActive |-> NoId, preNext |-> 1, stored |-> NoStored,
     seen |-> <<>>]

\* the list page with no category, the detail page's state as it mounts
Fresh ==
    /\ routeId = NoId
    /\ sortField = MANUAL
    /\ activeId = NoId
    /\ modalMode = "none"
    /\ targetGroupId = NoId
    /\ moveTargetId = NoId
    /\ now = 0
    /\ reader = NoReader
    /\ steps = 0
    /\ editingCategory = <<>>
    /\ stored = SaveEffect(categories)
    /\ mounted = TRUE
    /\ budget = MaxSteps

\* the application, started on what an earlier session stored: the document
\* an import of one of StoredFiles left (the empty document among them)
Init ==
    /\ \E file \in StoredFiles :
          /\ categories = ImportCategories(<<>>, file, 1, 0).cats
          /\ nextId = ImportCategories(<<>>, file, 1, 0).next
    /\ last = NoHist
    /\ Fresh

Next == AppDetailNext \/ ListNext \/ Tick

Spec == Init /\ [][Next]_vars

\* one category titled "A" whose items are all titled "x": the handlers of the
\* detail page never read a title
OneCategory(f) ==
    /\ Len(f) = 1
    /\ f[1].title = "A"
    /\ \A k \in 1..Len(f[1].items) :
          /\ f[1].items[k].title = "x"
          /\ IsGroup(f[1].items[k]) =>
                \A j \in 1..Len(f[1].items[k].items) : f[1].items[k].items[j].title = "x"

\* the files a detail page is opened on: a category of at most MaxDetail items
\* and nested options for the buttons, of one more for dragging
DetailFiles == {f \in FilesUpTo[MaxDetail + 1] : OneCategory(f)}
DragFiles == {f \in FilesUpTo[MaxDetail + 2] : OneCategory(f)}

\* the detail page of a category that was imported from one of files at time 0,
\* opened at time MaxTime
DetailInit(files) ==
    /\ \E file \in files :
          /\ categories = ImportCategories(<<>>, file, 1, 0).cats
          /\ nextId = ImportCategories(<<>>, file, 1, 0).next
    /\ last = NoHist
    /\ routeId = 1
    /\ sortField = MANUAL
    /\ activeId = NoId
    /\ modalMode = "none"
    /\ targetGroupId = NoId
    /\ moveTargetId = NoId
    /\ now = MaxTime
    /\ reader = NoReader
    /\ steps = 0
    /\ editingCategory = <<>>
    /\ stored = SaveEffect(categories)
    /\ mounted = TRUE
    /\ budget = MaxSteps

\* the detail page, dragging and sorting only
DragNext ==
    \/ \E id \in Ids : HandleDragStart(id)
    \/ \E active \in Ids, over \in Ids \cup {NoId} : HandleDragEnd(active, over)
    \/ \E field \in SortFields : SetSortField(field)

SpecDrag == DetailInit(DragFiles) /\ [][DragNext]_vars

\* the detail page in manual order, its buttons and modals only
TreeNext ==
    \/ \E mode \in {"createOption", "createGroup"}, groupId \in Ids \cup {NoId} :
          OpenCreateModal(mode, groupId)
    \/ \E itemId \in Ids : OpenMoveModal(itemId)
    \/ CloseModal
    \/ \E text \in ItemTitles \cup {Blank} : HandleAddItem(text)
    \/ \E itemId \in Ids, parentGroupId \in Ids \cup {NoId} :
          HandleDeleteItem(itemId, parentGroupId)
    \/ \E target \in Ids \cup {ROOT} : HandleMoveOption(target)

SpecTree == DetailInit(DetailFiles) /\ [][TreeNext]_vars

\* how many replacements of the document a category is built with
MaxBuild == 5

\* the detail page of a category addCategory has just made: no items yet
BuildInit ==
    /\ categories = AddCategory(<<>>,
          [id |-> GenerateId(1), title |-> "A", createdAt |-> 0, modifiedAt |-> 0,
           items |-> <<>>])
    /\ nextId = 2
    /\ last = NoHist
    /\ routeId = 1
    /\ sortField = MANUAL
    /\ activeId = NoId
    /\ modalMode = "none"
    /\ targetGroupId = NoId
    /\ moveTargetId = NoId
    /\ now = MaxTime
    /\ reader = NoReader
    /\ steps = 0
    /\ editingCategory = <<>>
    /\ stored = SaveEffect(categories)
    /\ mounted = TRUE
    /\ budget = MaxBuild

\* the detail page in manual order: adding, deleting, dragging and moving, each
\* handler with any id; no import
BuildNext ==
    \/ \E mode \in {"createOption", "createGroup"}, groupId \in Ids \cup {NoId} :
          OpenCreateModal(mode, groupId)
    \/ \E itemId \in Ids : OpenMoveModal(itemId)
    \/ CloseModal
    \/ HandleAddItem("x")
    \/ \E itemId \in Ids, parentGroupId \in Ids \cup {NoId} :
          HandleDeleteItem(itemId, parentGroupId)
    \/ \E target \in Ids \cup {ROOT} : HandleMoveOption(target)
    \/ \E id \in Ids : HandleDragStart(id)
    \/ \E active \in Ids, over \in Ids \cup {NoId} : HandleDragEnd(active, over)

SpecBuild == BuildInit /\ [][BuildNext]_vars

\* the list page: one import into a stored document, of a file as large as the
\* stored ones, and into the empty document of a file that leaves one id
MergeFiles == IF categories = <<>> THEN FilesUpTo[MaxId - 1] ELSE StoredFiles
MergeNext == \E file \in MergeFiles : steps = 0 /\ ImportNow(file)

SpecMerge == Init /\ [][MergeNext]_vars

\* the files the identity merge is given: at most MaxIdentity categories without
\* items, whose ids may repeat and may be ids of the document
IdentityCategories ==
    {[id |-> id, title |-> title, createdAt |-> 0, modifiedAt |-> 0, items |-> <<>>] :
        id \in 1..(MaxIdentity + 1), title \in CatTitles}
IdentityFiles == UNION {[1..n -> IdentityCategories] : n \in 0..MaxIdentity}

\* handleImportFile whose read completes before anything else happens, with the
\* identity merge for importCategories
IdentityImportNow(file) ==
    /\ routeId = NoId /\ ListIdle
    /\ ~reader.pending
    /\ categories' = IdentityImport(categories, file)
    /\ Step
    /\ last' = [Hist("identityImport", NoId, NoId, "", "update") EXCEPT !.file = file]
    /\ UNCHANGED <<budget, mounted, editingCategory, routeId, sortField, activeId, modalMode, targetGroupId,
                   moveTargetId, nextId, now, reader>>

IdentityNext == \E file \in IdentityFiles : steps = 0 /\ IdentityImportNow(file)

SpecIdentity == Init /\ [][IdentityNext]_vars

\* JSON values that are not documents: arrays of objects without the fields of
\* a category
WrongShapes == {<<[id |-> 1]>>, <<[id |-> 1, title |-> "A"]>>}

\* what localStorage may hold when the application starts: nothing, the empty
\* string, a text that does not parse, the text of a value of another shape,
\* the text of a document
StoredValues ==
    {NoStored, EmptyText, Unparsable}
    \cup {Stringify(v) : v \in WrongShapes}
    \cup {Stringify(ImportCategories(<<>>, file, 1, 0).cats) : file \in StoredFiles}

\* AppContent mounts: the useState initializer loads the document, and the save
\* effect of the first render writes it
Mount ==
    /\ ~mounted
    /\ categories' = LoadCategories(stored)
    /\ stored' = SaveEffect(categories')
    /\ mounted' = TRUE
    /\ last' = Hist("load", NoId, NoId, "", "update")
    /\ UNCHANGED <<budget, routeId, sortField, activeId, modalMode, targetGroupId, moveTargetId,
                   nextId, now, reader, steps, editingCategory>>

\* before AppContent mounts
LoadInit ==
    /\ stored \in StoredValues
    /\ categories = <<>>
    /\ nextId = 1
    /\ mounted = FALSE
    /\ budget = MaxSteps
    /\ editingCategory = <<>>
    /\ last = NoHist
    /\ routeId = NoId
    /\ sortField = MANUAL
    /\ activeId = NoId
    /\ modalMode = "none"
    /\ targetGroupId = NoId
    /\ moveTargetId = NoId
    /\ now = 0
    /\ reader = NoReader
    /\ steps = 0

SpecLoad == LoadInit /\ [][Mount]_vars

\* c.id && c.title && Array.isArray(c.items): a field that is missing is
\* undefined, NoId and Blank are falsy
PassesCheck(c) ==
    /\ "id" \in DOMAIN c /\ c.id # NoId
    /\ "title" \in DOMAIN c /\ c.title # Blank
    /\ "items" \in DOMAIN c

\* ImportResult gone wrong: the elements that pass the check are imported
ImportValidOnes(text) ==
    LET parsed == JsonParse(text)
    IN  IF parsed.threw \/ ~parsed.array THEN [ok |-> FALSE, file |-> <<>>]
        ELSE [ok |-> TRUE, file |-> Filter(parsed.value, PassesCheck)]

\* reader.onload up to the call of importCategories: the file is parsed and
\* checked, and is passed on or rejected with an alert
ImportResult(text) ==
    LET parsed == JsonParse(text)
    IN  IF parsed.threw THEN [ok |-> FALSE, file |-> <<>>]
        ELSE IF parsed.array /\ \A k \in 1..Len(parsed.value) : PassesCheck(parsed.value[k])
          THEN [ok |-> TRUE, file |-> parsed.value]
        ELSE [ok |-> FALSE, file |-> <<>>]

\* handleImportFile on a file of any content, its read completing before
\* anything else happens
ImportTextNow(text) ==
    /\ routeId = NoId /\ ListIdle
    /\ ~reader.pending
    /\ LET r == ImportResult(text)
           m == ImportCategories(categories, r.file, nextId, now)
       IN  IF r.ok
             THEN /\ m.next <= MaxId + 1
                  /\ categories' = m.cats
                  /\ nextId' = m.next
                  /\ Step
                  /\ last' = [Hist("importText", NoId, NoId, "", "update") EXCEPT !.file = text]
             ELSE /\ last' = [Hist("importText", NoId, NoId, "", "reject") EXCEPT !.file = text]
                  /\ UNCHANGED <<categories, nextId, steps, stored>>
    /\ UNCHANGED <<budget, mounted, editingCategory, routeId, sortField, activeId, modalMode,
                   targetGroupId, moveTargetId, now, reader>>

\* what can be wrong with an element of a file
Spoils == {"noId", "emptyId", "noTitle", "emptyTitle", "noItems"}

Spoiled(c, how) ==
    CASE how = "noId" -> [title |-> c.title, createdAt |-> c.createdAt,
                          modifiedAt |-> c.modifiedAt, items |-> c.items]
      [] how = "emptyId" -> [c EXCEPT !.id = NoId]
      [] how = "noTitle" -> [id |-> c.id, createdAt |-> c.createdAt,
                             modifiedAt |-> c.modifiedAt, items |-> c.items]
      [] how = "emptyTitle" -> [c EXCEPT !.title = Blank]
      [] how = "noItems" -> [id |-> c.id, title |-> c.title, createdAt |-> c.createdAt,
                             modifiedAt |-> c.modifiedAt]

\* the texts of files: of the files that pass the check, of those with one
\* element spoiled, of a value that is no array, and a text that does not parse
FileTexts ==
    {Unparsable, EmptyText, NotArrayText}
    \cup {Stringify(f) : f \in FilesUpTo[MaxStored]}
    \cup UNION {{Stringify([f EXCEPT ![k] = Spoiled(f[k], how)]) :
                      k \in 1..Len(f), how \in Spoils} : f \in FilesUpTo[MaxStored]}

\* one file is chosen in a run, as the first thing that happens
CheckNext == \E text \in FileTexts : last = NoHist /\ ImportTextNow(text)

SpecCheck == Init /\ [][CheckNext]_vars

\* updateCategory(updatedCat), called by a page that holds a category of its own
UpdateCategoryNow(updatedCat) ==
    /\ steps <= MaxSteps
    /\ categories' = UpdateCategory(categories, updatedCat)
    /\ Step
    /\ last' = [Hist("updateCategory", updatedCat.id, NoId, "", "update")
                   EXCEPT !.file = <<updatedCat>>]
    /\ UNCHANGED <<budget, mounted, editingCategory, routeId, sortField, activeId, modalMode,
                   targetGroupId, moveTargetId, nextId, now, reader>>

\* the store: a category may be deleted, and updateCategory is called with a
\* category whose id the document holds, held before the deletion, or never held
UpdateNext ==
    \/ \E id \in Ids : ConfirmDelete(id)
    \/ \E updatedCat \in IdentityCategories : UpdateCategoryNow(updatedCat)

SpecUpdate == Init /\ [][UpdateNext]_vars

\* the list page: one import of a file of one category, as large as the ids
\* allow, into a stored document of one category
SingleFiles == {f \in FilesUpTo[MaxId - 1] : Len(f) = 1}
IntoInit == Init /\ Len(categories) = 1
IntoNext == \E file \in SingleFiles : steps = 0 /\ ImportNow(file)

SpecMergeInto == IntoInit /\ [][IntoNext]_vars

\* how many replacements of the document are followed around a file read
MaxAsync == 2

\* the list page on a stored document, followed for MaxAsync replacements
AsyncInit ==
    /\ \E file \in FilesUpTo[MaxStored] :
          /\ categories = ImportCategories(<<>>, file, 1, 0).cats
          /\ nextId = ImportCategories(<<>>, file, 1, 0).next
    /\ last = NoHist
    /\ routeId = NoId
    /\ sortField = MANUAL
    /\ activeId = NoId
    /\ modalMode = "none"
    /\ targetGroupId = NoId
    /\ moveTargetId = NoId
    /\ now = 0
    /\ reader = NoReader
    /\ steps = 0
    /\ editingCategory = <<>>
    /\ stored = SaveEffect(categories)
    /\ mounted = TRUE
    /\ budget = MaxAsync

\* the list page while a file is read: categories are added, renamed and
\* deleted before and after reader.onload fires
AsyncNext ==
    \/ \E title \in CatTitles : HandleSubmit(title)
    \/ \E id \in Ids : OpenEditModal(id)
    \/ CloseEditModal
    \/ \E id \in Ids : ConfirmDelete(id)
    \/ \E file \in FilesUpTo[MaxStored] : HandleImportFile(file)
    \/ ReaderOnload

SpecAsync == AsyncInit /\ [][AsyncNext]_vars

----------------------------------------------------------------------------
(* Properties.  last names the handler that ran last and holds the document *)
(* it started from, so what a handler did is a predicate of one state.      *)

\* the ids of a sequence of items or categories, in order
IdsOf(s) == [k \in 1..Len(s) |-> s[k].id]

Range(s) == {s[k] : k \in 1..Len(s)}

\* how often x occurs in s
Count(s, x) == Cardinality({k \in 1..Len(s) : s[k] = x})

\* the same elements, each as often
SameBag(s, t) == \A x \in Range(s) \cup Range(t) : Count(s, x) = Count(t, x)

Distinct(s) == \A i, j \in 1..Len(s) : i # j => s[i] # s[j]

IsPrefix(s, t) == Len(s) <= Len(t) /\ \A k \in 1..Len(s) : s[k] = t[k]

\* the elements s and t share come in the same order in both
KeepsOrder(s, t) ==
    LET common == Range(s) \cap Range(t)
    IN  SelectSeq(s, LAMBDA x : x \in common) = SelectSeq(t, LAMBDA x : x \in common)

\* the category shown, as it was before the last handler ran
PreCategory == last.pre[FindIndex(last.pre, LAMBDA c : c.id = routeId)]

\* the options of a category: the root options and the options inside the root groups
RECURSIVE OptionCount(_)
OptionCount(items) ==
    IF items = <<>> THEN 0
    ELSE (IF IsGroup(Head(items)) THEN Len(Options(Head(items).items)) ELSE 1)
         + OptionCount(Tail(items))

\* id names a root group of items
ResolvesToGroup(items, id) == \E k \in 1..Len(items) : items[k].id = id /\ IsGroup(items[k])

\* where id is in items: -1 among the root groups, -2 among the root options,
\* the id of the root group it is nested in, 0 nowhere
Bucket(items, id) ==
    LET gi == FindIndex(items, LAMBDA i : IsGroup(i) /\ HasId(i.items, id))
    IN  IF ResolvesToGroup(items, id) THEN -1
        ELSE IF HasId(items, id) THEN -2
        ELSE IF gi # 0 THEN items[gi].id
        ELSE 0

\* every id of items, nested ones included
RECURSIVE ItemIds(_)
ItemIds(items) ==
    IF items = <<>> THEN <<>>
    ELSE <<Head(items).id>>
         \o (IF IsGroup(Head(items)) THEN ItemIds(Head(items).items) ELSE <<>>)
         \o ItemIds(Tail(items))

\* every id of a document
RECURSIVE DocIds(_)
DocIds(cats) ==
    IF cats = <<>> THEN <<>>
    ELSE <<Head(cats).id>> \o ItemIds(Head(cats).items) \o DocIds(Tail(cats))

\* titles and structure of a document, without ids and modifiedAt
ItemShape(i) ==
    IF IsGroup(i)
      THEN [type |-> i.type, title |-> i.title,
            items |-> [k \in 1..Len(i.items) |->
                          [type |-> i.items[k].type, title |-> i.items[k].title]]]
      ELSE [type |-> i.type, title |-> i.title]
DocShape(cats) ==
    [c \in 1..Len(cats) |->
        [title |-> cats[c].title,
         items |-> [k \in 1..Len(cats[c].items) |-> ItemShape(cats[c].items[k])]]]

\* C1: handleMoveOption leaves the number of options of the category (root
\* options plus options inside all groups) as it was, for every option id and
\* every destination, the root sentinel or any id, whether or not it names a group.
C1_MoveConservesOptions ==
    last.op = "moveOption" =>
        OptionCount(Category.items) = OptionCount(PreCategory.items)

\* C2: handleMoveOption with a destination id that does not name a root group
\* (an unknown id, or the id of an option) leaves the category's items unchanged.
C2_MoveToNoGroupIsNoOp ==
    (/\ last.op = "moveOption"
     /\ last.b # ROOT
     /\ ~ResolvesToGroup(PreCategory.items, last.b))
    => Category.items = PreCategory.items

\* C3: the title-based merge is idempotent: importing the file that was just
\* imported once more gives a document of the same titles and structure.
C3_MergeIdempotent ==
    last.op = "import" =>
        DocShape(ImportCategories(categories, last.file, nextId, now).cats)
            = DocShape(categories)

\* C4: the title-based merge only adds: the categories before the merge are a
\* prefix of the categories after it with the same ids and titles, the items of
\* each are a prefix of its items after it with the same ids, titles and types,
\* and the options of each group are a prefix of its options after it.
C4_MergeAdditive ==
    last.op = "import" =>
        /\ Len(last.pre) <= Len(categories)
        /\ \A c \in 1..Len(last.pre) :
              LET pre == last.pre[c]
                  post == categories[c]
              IN  /\ post.id = pre.id /\ post.title = pre.title
                  /\ Len(pre.items) <= Len(post.items)
                  /\ \A k \in 1..Len(pre.items) :
                        /\ post.items[k].id = pre.items[k].id
                        /\ post.items[k].title = pre.items[k].title
                        /\ post.items[k].type = pre.items[k].type
                        /\ IsGroup(pre.items[k]) =>
                              IsPrefix(pre.items[k].items, post.items[k].items)

\* an import gave an existing group of an existing category one more option
C4_Witness ==
    /\ last.op = "import"
    /\ \E c \in 1..Len(last.pre) : \E k \in 1..Len(last.pre[c].items) :
          /\ IsGroup(last.pre[c].items[k])
          /\ Len(last.pre[c].items[k].items) >= 1
          /\ Len(categories[c].items[k].items) > Len(last.pre[c].items[k].items)

\* C5: the ids of the document, of categories, root items and nested options
\* alike, are pairwise distinct after every sequence of adding a category, a
\* group or an option, deleting, dragging, moving an option and importing.
C5_IdsUnique == Distinct(DocIds(categories))

\* an import added items to a category that had some
C5_Witness ==
    /\ last.op = "import"
    /\ \E c \in 1..Len(last.pre) :
          /\ Len(last.pre[c].items) >= 1
          /\ Len(categories[c].items) > Len(last.pre[c].items)

\* C6: handleDragEnd in manual mode leaves the ids of the category's items,
\* and the ids of the options inside every group, the same multiset.
C6_ReorderPermutes ==
    (last.op = "dragEnd" /\ last.s = MANUAL) =>
        /\ SameBag(IdsOf(Category.items), IdsOf(PreCategory.items))
        /\ \A k \in 1..Len(PreCategory.items) :
              IsGroup(PreCategory.items[k]) =>
                  \E j \in 1..Len(Category.items) :
                      /\ Category.items[j].id = PreCategory.items[k].id
                      /\ IsGroup(Category.items[j])
                      /\ SameBag(IdsOf(Category.items[j].items),
                                 IdsOf(PreCategory.items[k].items))

\* a drag changed the order of the root items
C6_Witness ==
    /\ last.op = "dragEnd" /\ last.s = MANUAL /\ last.res = "update"
    /\ IdsOf(Category.items) # IdsOf(PreCategory.items)

\* C7: dragging a root group onto a root group leaves the root options in the
\* order they had, and dragging a root option onto a root option leaves the
\* root groups in the order they had, wherever groups and options are in items.
C7_ReorderKeepsOtherBucket ==
    (last.op = "dragEnd" /\ last.res = "update") =>
        /\ BothRootGroups(PreCategory.items, last.a, last.b) =>
              Options(Category.items) = Options(PreCategory.items)
        /\ BothRootOptions(PreCategory.items, last.a, last.b) =>
              Groups(Category.items) = Groups(PreCategory.items)

\* two root groups were reordered in a category that holds two root options,
\* the first of them before the first group
C7_Witness ==
    /\ last.op = "dragEnd" /\ last.res = "update"
    /\ BothRootGroups(PreCategory.items, last.a, last.b)
    /\ Len(Options(PreCategory.items)) >= 2
    /\ IsOption(PreCategory.items[1])
    /\ Groups(Category.items) # Groups(PreCategory.items)

\* C8: while the sort field is not MANUAL, handleDragStart records no active
\* item and handleDragEnd leaves the document (the items, the items of every
\* group, modifiedAt) as it was, for every pair of ids.
C8_NoDragUnlessManual ==
    /\ (last.op = "dragStart" /\ last.s # MANUAL) => activeId = NoId
    /\ (last.op = "dragEnd" /\ last.s # MANUAL) => categories = last.pre

\* a drag of a root option onto another ended while the items were sorted
C8_Witness ==
    /\ last.op = "dragEnd" /\ last.s # MANUAL
    /\ last.a # last.b
    /\ BothRootOptions(PreCategory.items, last.a, last.b)

\* C9: in manual mode handleDragEnd leaves the category as it was when the two
\* ids are in different buckets (a root group and a root option, a root item
\* and a nested option, options nested in different groups), when they are
\* equal, and when there is no drop target.
C9_CrossBucketIsNoOp ==
    (/\ last.op = "dragEnd" /\ last.s = MANUAL
     /\ \/ last.b = NoId
        \/ last.a = last.b
        \/ /\ Bucket(PreCategory.items, last.a) # 0
           /\ Bucket(PreCategory.items, last.b) # 0
           /\ Bucket(PreCategory.items, last.a) # Bucket(PreCategory.items, last.b))
    => categories = last.pre

\* a root group was dragged onto a root option
C9_Witness ==
    /\ last.op = "dragEnd" /\ last.s = MANUAL
    /\ Bucket(PreCategory.items, last.a) = -1
    /\ Bucket(PreCategory.items, last.b) = -2

\* C10: adding an item, deleting an item, moving an option and importing keep
\* the root groups that are there before and after in the order they had among
\* themselves, and so the root options.
C10_OrderPreserved ==
    last.op \in {"addItem", "deleteItem", "moveOption", "import"} =>
        \A i \in 1..Len(last.pre), j \in 1..Len(categories) :
            last.pre[i].id = categories[j].id =>
                /\ KeepsOrder(IdsOf(Groups(last.pre[i].items)),
                              IdsOf(Groups(categories[j].items)))
                /\ KeepsOrder(IdsOf(Options(last.pre[i].items)),
                              IdsOf(Options(categories[j].items)))

----------------------------------------------------------------------------
\* C11: every category of the document was modified no earlier than it was
\* created (modifiedAt >= createdAt), whatever sequence of category creations
\* and edits, item additions, deletions, moves and reorders, and imports of
\* files that pass the validity check has run.
C11_ModifiedNotBeforeCreated ==
    \A c \in 1..Len(categories) : categories[c].modifiedAt >= categories[c].createdAt

----------------------------------------------------------------------------
\* handleAddItem ran to its end and the new item was meant for the root
AddedAtRoot ==
    /\ last.op = "addItem" /\ last.res = "update"
    /\ last.s = "createGroup" \/ last.a = NoId

\* the new item is at index i of the items, and taking it out leaves the items
\* the handler started from
NewItemAt(i) ==
    /\ i \in 1..Len(Category.items)
    /\ Category.items[i].id = last.b
    /\ RemoveAt(Category.items, i) = PreCategory.items

\* the placement of insertAtRoot: a group first, an option just before the first
\* option that was there, or last when there was none
RootPlacement ==
    LET firstOptionIndex == FindIndex(PreCategory.items, IsOption)
    IN  IF last.s = "createGroup"
          THEN NewItemAt(1) /\ IsGroup(Category.items[1])
        ELSE IF firstOptionIndex # 0
          THEN NewItemAt(firstOptionIndex) /\ IsOption(Category.items[firstOptionIndex])
        ELSE NewItemAt(Len(PreCategory.items) + 1)
             /\ IsOption(Category.items[Len(Category.items)])

\* every root group stands before the new item
AfterLastRootGroup ==
    \A k \in 1..Len(Category.items) :
        IsGroup(Category.items[k]) => k < IndexOfId(Category.items, last.b)

\* C12 as stated: insertAtRoot puts a new group at index 0 and a new option
\* immediately before the first root option that was there, which is after the
\* last root group, or at the end when there was no root option; all other
\* items keep their relative order.
C12_InsertAtRootAfterGroups ==
    AddedAtRoot =>
        /\ RootPlacement
        /\ last.s = "createOption" => AfterLastRootGroup

\* C12, amended: insertAtRoot puts a new group at index 0 and a new option
\* immediately before the first root option that was there, wherever the root
\* groups stand, or at the end when there was no root option; all other items
\* keep their relative order.
C12_InsertAtRoot == AddedAtRoot => RootPlacement

\* an option was added to the root of items that held a group and, behind it,
\* an option
C12_Witness ==
    /\ AddedAtRoot /\ last.s = "createOption"
    /\ FindIndex(PreCategory.items, IsOption) > 1

----------------------------------------------------------------------------
\* handleAddItem ran to its end and the new option was meant for the group
\* last.a
AddedIntoGroup ==
    /\ last.op = "addItem" /\ last.res = "update"
    /\ last.s = "createOption" /\ last.a # NoId

\* C13: insertIntoGroup, when groupId is not found among the root items or
\* names an item that is not a group, is a no-op and leaves the category
\* unchanged; otherwise the new option becomes the first element of that
\* group's items and nothing else in the category's items changes.
C13_InsertIntoGroup ==
    AddedIntoGroup =>
        IF ~ResolvesToGroup(PreCategory.items, last.a)
          THEN Category = PreCategory
          ELSE LET k == IndexOfId(PreCategory.items, last.a)
                   group == Category.items[k]
               IN  /\ group.items # <<>>
                   /\ group.items[1].id = last.b /\ IsOption(group.items[1])
                   /\ Category.items =
                         SetAt(PreCategory.items, k,
                               [PreCategory.items[k] EXCEPT !.items = <<group.items[1]>> \o @])

----------------------------------------------------------------------------
\* handleDeleteItem ran on a root group
DeletedRootGroup ==
    /\ last.op = "deleteItem" /\ last.res = "update"
    /\ last.b = NoId
    /\ ResolvesToGroup(PreCategory.items, last.a)

NotFound(items, id) == FindItem(items, id).type = "NONE"

\* C14: deleting a root group removes the group and all of its nested options:
\* afterwards findItem returns not-found for the group's id and for the id of
\* every option it contained, and no other item is removed.
C14_DeleteGroupRemovesOptions ==
    DeletedRootGroup =>
        LET k == IndexOfId(PreCategory.items, last.a)
            group == PreCategory.items[k]
        IN  /\ NotFound(Category.items, last.a)
            /\ \A j \in 1..Len(group.items) : NotFound(Category.items, group.items[j].id)
            /\ Category.items = RemoveAt(PreCategory.items, k)

\* a root group that held an option was deleted, and an item is left
C14_Witness ==
    /\ DeletedRootGroup
    /\ PreCategory.items[IndexOfId(PreCategory.items, last.a)].items # <<>>
    /\ Category.items # <<>>

----------------------------------------------------------------------------
\* handleMoveOption moved the option last.a onto the container it was in: a root
\* option to ROOT, a nested option to the group that held it
MovedOntoOwnContainer ==
    /\ last.op = "moveOption" /\ last.res = "update"
    /\ Bucket(PreCategory.items, last.a) = (IF last.b = ROOT THEN -2 ELSE last.b)

\* C15: moving an option onto the container it is already in (a root option to
\* root, a nested option to its own group) is a no-op on structure: the
\* category's items and every group's items are the same sequences as before,
\* and only modifiedAt is updated.
C15_MoveOntoOwnContainer ==
    MovedOntoOwnContainer =>
        /\ Category.items = PreCategory.items
        /\ Category = [PreCategory EXCEPT !.modifiedAt = now]

----------------------------------------------------------------------------
TitlesDistinct(s) == \A i, j \in 1..Len(s) : i # j => s[i].title # s[j].title

\* the root options carry pairwise distinct titles, and so do the options of
\* each root group
WellTitled(cat) ==
    /\ TitlesDistinct(Options(cat.items))
    /\ \A k \in 1..Len(cat.items) : IsGroup(cat.items[k]) => TitlesDistinct(cat.items[k].items)

\* C16: the title-based merge skips duplicates by title: an import into an
\* existing category whose root options have pairwise distinct titles and whose
\* groups each hold options with pairwise distinct titles leaves the root
\* options, and the options of each group that was there, with pairwise
\* distinct titles, whatever the payload.
C16_MergeKeepsTitlesDistinct ==
    last.op = "import" =>
        \A c \in 1..Len(last.pre) :
            WellTitled(last.pre[c]) =>
                /\ TitlesDistinct(Options(categories[c].items))
                /\ \A k \in 1..Len(last.pre[c].items) :
                       IsGroup(last.pre[c].items[k]) =>
                           TitlesDistinct(categories[c].items[k].items)

----------------------------------------------------------------------------
Titles(cats) == {cats[k].title : k \in 1..Len(cats)}

\* the categories of the imported file whose title no category of the
\* accumulating result carries: none of the document, none earlier in the file
NewIndexes ==
    {k \in 1..Len(last.file) :
        /\ last.file[k].title \notin Titles(last.pre)
        /\ last.file[k].title \notin Titles(SubSeq(last.file, 1, k - 1))}

\* where the category made for last.file[k] stands in the document
NewPosition(k) == Len(last.pre) + Cardinality({i \in NewIndexes : i <= k})

\* an id generateId handed out during the import that ran last
FreshId(id) ==
    /\ id >= last.preNext /\ id < nextId
    /\ id \notin Range(DocIds(last.pre))

\* item new carries what the imported item imp carries, but for the ids; a group
\* may have been given more options by a later category of the same file
CarriesItem(new, imp) ==
    /\ new.type = imp.type /\ new.title = imp.title
    /\ IsGroup(imp) =>
          /\ Len(new.items) >= Len(imp.items)
          /\ \A j \in 1..Len(imp.items) : ItemShape(new.items[j]) = ItemShape(imp.items[j])

\* C17: when no category of the accumulating result carries the imported
\* category's title, the import adds exactly one new category, appended at the
\* end, whose own id, root item ids and nested option ids are all freshly
\* generated, with the titles and structure of the imported one: no id of the
\* payload is taken over.
C17_NewCategoryFreshIds ==
    last.op = "import" =>
        /\ Len(categories) = Len(last.pre) + Cardinality(NewIndexes)
        /\ \A k \in NewIndexes :
              LET new == categories[NewPosition(k)]
                  imp == last.file[k]
              IN  /\ new.title = imp.title
                  /\ new.createdAt = imp.createdAt
                  /\ Len(new.items) >= Len(imp.items)
                  /\ \A j \in 1..Len(imp.items) : CarriesItem(new.items[j], imp.items[j])
                  /\ \A j \in 1..Len(DocIds(<<new>>)) : FreshId(DocIds(<<new>>)[j])
                  /\ Distinct(DocIds(<<new>>))

\* an import into a document that was not empty added a category that holds a
\* group with an option in it
C17_Witness ==
    /\ last.op = "import" /\ last.pre # <<>>
    /\ \E k \in NewIndexes :
          \E j \in 1..Len(last.file[k].items) :
              /\ IsGroup(last.file[k].items[j])
              /\ last.file[k].items[j].items # <<>>

----------------------------------------------------------------------------
\* the last category of the imported file that carries id
LastImported(id) ==
    last.file[CHOOSE k \in 1..Len(last.file) :
                /\ last.file[k].id = id
                /\ \A j \in (k + 1)..Len(last.file) : last.file[j].id # id]

\* the ids of the imported file that the document did not hold, in the order
\* they first occur in the file
RECURSIVE NewIdsInOrder(_, _)
NewIdsInOrder(file, seen) ==
    IF file = <<>> THEN <<>>
    ELSE IF Head(file).id \in seen THEN NewIdsInOrder(Tail(file), seen)
    ELSE <<Head(file).id>> \o NewIdsInOrder(Tail(file), seen \cup {Head(file).id})

\* C18: the identity merge overwrites or inserts by id: afterwards the document
\* holds, for every imported category id, exactly one category with that id,
\* equal to the last imported category with that id; the categories whose id is
\* not in the import are unchanged; overwritten categories keep their position
\* and categories with new ids are appended in import order.
C18_IdentityMerge ==
    last.op = "identityImport" =>
        /\ \A k \in 1..Len(last.file) :
              LET id == last.file[k].id
              IN  /\ Cardinality({c \in 1..Len(categories) : categories[c].id = id}) = 1
                  /\ categories[IndexOfId(categories, id)] = LastImported(id)
        /\ Len(categories) >= Len(last.pre)
        /\ \A c \in 1..Len(last.pre) :
              /\ categories[c].id = last.pre[c].id
              /\ ~HasId(last.file, last.pre[c].id) => categories[c] = last.pre[c]
        /\ IdsOf(SubSeq(categories, Len(last.pre) + 1, Len(categories)))
              = NewIdsInOrder(last.file, Range(IdsOf(last.pre)))

\* the import held two categories of one id that differ, the id of one of the
\* two categories of the document
C18_Witness ==
    /\ last.op = "identityImport"
    /\ Len(last.pre) = 2
    /\ \E j, k \in 1..Len(last.file) :
          /\ j < k /\ last.file[j].id = last.file[k].id /\ last.file[j] # last.file[k]
          /\ HasId(last.pre, last.file[k].id)

----------------------------------------------------------------------------
----------------------------------------------------------------------------
\* a value with the fields of a category in every element
IsDocument(v) ==
    \A k \in 1..Len(v) : DOMAIN v[k] = {"id", "title", "createdAt", "modifiedAt", "items"}

\* a stored text that does not parse, or parses to a value of another shape
Malformed(text) ==
    \/ text.kind = "unparsable"
    \/ text.kind = "json" /\ ~IsDocument(text.value)

\* C20: on load, a malformed stored value (one that does not parse, or parses
\* to a value of the wrong shape) is discarded and the document starts empty;
\* an absent stored value yields the empty document too.
C20_MalformedStoredDiscarded ==
    (/\ last.op = "load"
     /\ Malformed(last.stored) \/ last.stored.kind \in {"absent", "empty"})
        => categories = <<>>

----------------------------------------------------------------------------
\* an element without a non-empty id, a non-empty title or an items array
Lacking(c) ==
    \/ "id" \notin DOMAIN c \/ "title" \notin DOMAIN c \/ "items" \notin DOMAIN c
    \/ c.id = NoId \/ c.title = Blank

\* a file that does not parse, is not an array, or holds a lacking element
InvalidText(text) ==
    \/ text.kind \in {"unparsable", "empty", "scalar"}
    \/ text.kind = "json" /\ \E k \in 1..Len(text.value) : Lacking(text.value[k])

\* C21: an import file that does not parse, is not an array, or has an element
\* lacking a non-empty id, a non-empty title or an array-valued items field is
\* rejected as a whole: the merge is not invoked, no category of the file is
\* imported, the valid ones included, and the document is unchanged.
C21_InvalidFileRejected ==
    (last.op = "importText" /\ InvalidText(last.file)) =>
        /\ last.res = "reject"
        /\ categories = last.pre
        /\ nextId = last.preNext
        /\ stored = last.stored
        /\ steps = 0

\* a file of a category that passes the check and one that lacks a field was
\* rejected, the document holding a category
C21_Witness ==
    /\ last.op = "importText" /\ last.res = "reject"
    /\ last.file.kind = "json" /\ Len(last.file.value) = 2
    /\ \E j, k \in 1..2 : ~Lacking(last.file.value[j]) /\ Lacking(last.file.value[k])
    /\ categories # <<>>

----------------------------------------------------------------------------
\* handleDeleteItem was given an item id that is not where it looks, or a
\* parentGroupId that is unknown or names an option
DeleteFoundNothing ==
    /\ last.op = "deleteItem"
    /\ IF last.b = NoId THEN ~HasId(PreCategory.items, last.a)
       ELSE \/ ~ResolvesToGroup(PreCategory.items, last.b)
            \/ ~HasId(PreCategory.items[IndexOfId(PreCategory.items, last.b)].items, last.a)

\* handleMoveOption was given an option id that is nowhere in the category
MoveFoundNothing ==
    /\ last.op = "moveOption"
    /\ Bucket(PreCategory.items, last.a) = 0

\* C22: a reference that is not found is a silent no-op, not an error:
\* deleteItem with an item id that does not exist (at root, or inside the given
\* parent group), deleteItem with a parentGroupId that is unknown or resolves
\* to an option, and moveOption with an option id found nowhere all complete
\* without raising an error and leave the category's items unchanged.
C22_NotFoundIsSilentNoOp ==
    (DeleteFoundNothing \/ MoveFoundNothing) =>
        /\ last.res # "throw"
        /\ Category.items = PreCategory.items

----------------------------------------------------------------------------
\* C23: the document order is most-recently-added-first: after a category was
\* added, by the create command or by an import, it stands before every
\* category that was added earlier.
C23_MostRecentFirst ==
    last.op \in {"addCategory", "import"} =>
        \A i, j \in 1..Len(categories) :
            (~HasId(last.pre, categories[i].id) /\ HasId(last.pre, categories[j].id)) => i < j

----------------------------------------------------------------------------
\* C24: two-level depth is an invariant: starting from a category whose groups
\* contain only options, after any sequence of add, delete, drag-reorder and moveOption
\* operations (moveOption called with any item id of the category) every
\* group's items contains only options, never a group.
C24_TwoLevels ==
    \A k \in 1..Len(Category.items) :
        IsGroup(Category.items[k]) =>
            \A j \in 1..Len(Category.items[k].items) : IsOption(Category.items[k].items[j])

----------------------------------------------------------------------------
\* items with the item id taken out, of the root and of every group
Without(items, id) ==
    LET kept == Filter(items, LAMBDA i : i.id # id)
    IN  [k \in 1..Len(kept) |->
            IF IsGroup(kept[k])
              THEN [kept[k] EXCEPT !.items = Filter(@, LAMBDA i : i.id # id)]
              ELSE kept[k]]

\* handleMoveOption moved an option of the category to a group it was not in
MovedToOtherGroup ==
    /\ last.op = "moveOption" /\ last.res = "update"
    /\ Bucket(PreCategory.items, last.a) \notin {0, -1, last.b}
    /\ ResolvesToGroup(PreCategory.items, last.b)

\* handleMoveOption moved an option that was inside a group to the root
MovedNestedToRoot ==
    /\ last.op = "moveOption" /\ last.res = "update"
    /\ Bucket(PreCategory.items, last.a) \notin {0, -1, -2}
    /\ last.b = ROOT

\* C25: moveOption of an existing option to a different existing group removes
\* it from its source container and makes it the last element of the
\* destination group's items; moving a nested option to root places it
\* immediately before the first root option, or at the end of items if there
\* is none; afterwards the option's id occurs exactly once in the category.
C25_MovePlacement ==
    /\ MovedToOtherGroup =>
          LET dest == Category.items[IndexOfId(Category.items, last.b)]
          IN  /\ dest.items # <<>>
              /\ dest.items[Len(dest.items)] = FindItem(PreCategory.items, last.a)
              /\ Bucket(Category.items, last.a) = last.b
              /\ Without(Category.items, last.a) = Without(PreCategory.items, last.a)
              /\ Count(ItemIds(Category.items), last.a) = 1
    /\ MovedNestedToRoot =>
          LET firstOptionIndex == FindIndex(PreCategory.items, IsOption)
              at == IF firstOptionIndex # 0 THEN firstOptionIndex ELSE Len(Category.items)
          IN  /\ Category.items[at] = FindItem(PreCategory.items, last.a)
              /\ Len(Category.items) = Len(PreCategory.items) + 1
              /\ Without(Category.items, last.a) = Without(PreCategory.items, last.a)
              /\ Count(ItemIds(Category.items), last.a) = 1

\* an option moved from one group into another, or out of a group to a root
\* that held an option behind a group
C25_Witness ==
    \/ /\ MovedToOtherGroup
       /\ Bucket(PreCategory.items, last.a) # -2
    \/ /\ MovedNestedToRoot
       /\ FindIndex(PreCategory.items, IsOption) > 1

----------------------------------------------------------------------------
\* C26: updateCategory replaces exactly the document entries whose id equals
\* the updated category's id and leaves every other category, the document
\* length and the category order unchanged; when no category has that id (it
\* was deleted in the meantime, say) the document is unchanged and the category
\* is not put back in.
C26_UpdateCategoryFrame ==
    last.op = "updateCategory" =>
        LET updatedCat == last.file[1]
        IN  /\ Len(categories) = Len(last.pre)
            /\ \A k \in 1..Len(last.pre) :
                  categories[k] = IF last.pre[k].id = updatedCat.id THEN updatedCat
                                  ELSE last.pre[k]
            /\ ~HasId(last.pre, updatedCat.id) =>
                  categories = last.pre /\ ~HasId(categories, updatedCat.id)

\* category 1, which every stored document that is not empty holds, was
\* deleted, and updateCategory was then called with it on what was left
C26_Witness ==
    /\ last.op = "updateCategory" /\ last.a = 1
    /\ steps = 2
    /\ last.pre # <<>> /\ ~HasId(last.pre, 1)

----------------------------------------------------------------------------
\* arrayMove of active to the index of over, in the filtered list view
MovedInView(view, active, over) ==
    ArrayMove(view, IndexOfId(view, active), IndexOfId(view, over))

\* C27: the drag reorder on the full flat items array refines the reorder on
\* the filtered view: for two root groups (or two root options) active and
\* over, the groups (the options) filtered from the items after the move on the
\* full array are the array-move of active to over's index applied to the
\* groups (the options) filtered before the move, however groups and options
\* are interleaved.
C27_DragRefinesView ==
    (last.op = "dragEnd" /\ last.res = "update") =>
        /\ BothRootGroups(PreCategory.items, last.a, last.b) =>
              Groups(Category.items) = MovedInView(Groups(PreCategory.items), last.a, last.b)
        /\ BothRootOptions(PreCategory.items, last.a, last.b) =>
              Options(Category.items) = MovedInView(Options(PreCategory.items), last.a, last.b)

\* a root group was dragged over a group two places away in the list of
\* groups, an option standing between groups in the items
C27_Witness ==
    /\ last.op = "dragEnd" /\ last.res = "update"
    /\ BothRootGroups(PreCategory.items, last.a, last.b)
    /\ LET view == Groups(PreCategory.items)
       IN  IndexOfId(view, last.a) - IndexOfId(view, last.b) \in {2, -2}
    /\ \E i, j, k \in 1..Len(PreCategory.items) :
          /\ i < j /\ j < k
          /\ IsGroup(PreCategory.items[i]) /\ IsOption(PreCategory.items[j])
          /\ IsGroup(PreCategory.items[k])

\* the root items are the root groups followed by the root options
GroupsFirst(items) ==
    \A i, j \in 1..Len(items) : (IsGroup(items[i]) /\ IsOption(items[j])) => i < j

\* C28: in a category built from an empty item list by adding groups and
\* options, deleting, drag-reordering and moving (no import), every root
\* group precedes every root option
C28_GroupsPrecedeOptions == HasCategory => GroupsFirst(Category.items)

\* two root groups and two root options, after a drag that reordered the root or
\* a move to the root
C28_Witness ==
    /\ HasCategory
    /\ Len(Groups(Category.items)) >= 2
    /\ Len(Options(Category.items)) >= 2
    /\ last.res = "update"
    /\ \/ last.op = "dragEnd" /\ HasId(PreCategory.items, last.a)
                               /\ HasId(PreCategory.items, last.b)
       \/ last.op = "moveOption" /\ last.b = ROOT

\* the items before are still there, in their places, with the options they held
ItemsKept(before, after) ==
    /\ Len(before) <= Len(after)
    /\ \A k \in 1..Len(before) :
          /\ after[k].id = before[k].id
          /\ after[k].title = before[k].title
          /\ after[k].type = before[k].type
          /\ IsGroup(before[k]) => IsPrefix(before[k].items, after[k].items)

\* C29: an import merges into the document as it is when the file read
\* completes: the categories added, renamed or deleted between the choice of
\* the file and the end of the read are neither lost nor overwritten by the
\* merge, which is computed from the latest document in one replacement
C29_ImportMergesLatest ==
    last.op = "import" =>
        /\ categories = ImportCategories(last.pre, last.file, last.preNext, now).cats
        /\ Len(categories) >= Len(last.pre)
        /\ \A k \in 1..Len(last.pre) :
              /\ categories[k].id = last.pre[k].id
              /\ categories[k].title = last.pre[k].title
              /\ categories[k].createdAt = last.pre[k].createdAt
              /\ ItemsKept(last.pre[k].items, categories[k].items)
        /\ \A k \in 1..Len(categories) :
              \/ categories[k].id \in Range(IdsOf(last.pre))
              \/ categories[k].id >= last.preNext
        /\ \A k \in 1..Len(last.seen) :
              last.seen[k].id \notin Range(IdsOf(last.pre)) =>
                  last.seen[k].id \notin Range(IdsOf(categories))

\* a read that ended on another document than the one its file was chosen on,
\* the file carrying a title of the latest document
C29_Witness ==
    /\ last.op = "import"
    /\ last.seen # last.pre
    /\ \E k \in 1..Len(last.file) : last.file[k].title \in Titles(last.pre)

\* C30: the active item of the drag state machine is recorded only by a
\* dragStart while the sort field is MANUAL, and it is cleared (null) after
\* every dragEnd, whatever the sort field, the drop target or the outcome of
\* the reorder
C30_ActiveItem ==
    /\ (activeId # NoId /\ activeId # last.preActive) =>
          (last.op = "dragStart" /\ last.s = MANUAL /\ activeId = last.a)
    /\ (last.op = "dragStart" /\ last.s # MANUAL) => activeId = last.preActive
    /\ last.op = "dragEnd" => activeId = NoId

\* a drag that had an active item ended outside every drop target
C30_Witness ==
    /\ last.op = "dragEnd"
    /\ last.preActive # NoId
    /\ last.b = NoId
    /\ last.res = "return"

====
